---------------------------- MODULE Spec2Model ----------------------------
(***************************************************************************)
(* State-machine model of shotgrid-flame-tools:                            *)
(*   create_playlist_for_review.py  (create_client_delivery)               *)
(*   create_shot_masters.py         (build_shot_masters_from_sequence,     *)
(*                                   generate_slate)                       *)
(* The host application (flame) and the tracking service (ShotGrid) are    *)
(* the environment: every call into them that can raise is a               *)
(* nondeterministic choice between its outcomes.                           *)
(***************************************************************************)
EXTENDS Integers, Sequences, FiniteSets, TLC

(***************************************************************************)
(* Bounds of the model.                                                    *)
(***************************************************************************)
MaxClips == 2

MaxSegments == 2

MaxParts == 2

MaxLayers == 2

(***************************************************************************)
(* Python's None, and the values the environment hands to the scripts.     *)
(***************************************************************************)
None == [type |-> "None"]

Project == [type |-> "Project", id |-> 7, name |-> "show"]

Engine == [type |-> "Engine", project |-> Project]

ReelName == "ep01_comp_submissions"

\* clips of the selected reel: name, and shot name of the first segment
Clips ==
  { [name |-> "sh010_comp_v001", shot_name |-> "sh010"],
    [name |-> "sh020_comp_v002", shot_name |-> "sh020"],
    [name |-> "sh030_comp_v001", shot_name |-> "sh030"] }

\* The Shot, Task and Version entities the ShotGrid site holds before the run.
SgShots ==
  { [type |-> "Shot", id |-> 1, code |-> "sh010"],
    [type |-> "Shot", id |-> 2, code |-> "sh020"] }

SgTasks ==
  { [type |-> "Task", id |-> 11, entity |-> 1, content |-> "Comp"],
    [type |-> "Task", id |-> 12, entity |-> 2, content |-> "Comp"],
    [type |-> "Task", id |-> 13, entity |-> 2, content |-> "Roto"] }

SgInternalVersions ==
  { [type |-> "Version", code |-> "sh010_comp_v001", description |-> "first pass"],
    [type |-> "Version", code |-> "sh020_comp_v002", description |-> "notes addressed"],
    [type |-> "Version", code |-> "sh030_comp_v001", description |-> "wip"] }

SeqsUpTo(S, n) == UNION { [1..k -> S] : k \in 0..n }

VARIABLES
  pc,            \* position in the running menu action
  log,           \* the calls into flame / ShotGrid that took effect, in order
  flame_engine,  \* sgtk.platform.current_engine(): Engine or None
  export_path,   \* flame.browser.selection[0]: "" when nothing was chosen
  reel,          \* mezzanines_reel.clips
  versions,      \* create_versions' list, then sg_versions
  idx,           \* loop index of the running for loop
  attempt,       \* upload attempts already failed for versions[idx]
  sgVersions,    \* Version entities created on ShotGrid by this run
  sgUploads,     \* ids of the versions that hold an uploaded movie
  sgPlaylists,   \* Playlist entities created on ShotGrid by this run
  nextId,        \* the id ShotGrid gives to the next created entity
  sequence,      \* the selected PySequence: versions of tracks of segments
  shots,         \* collect_sequence_segments(sequence)
  shot_names,    \* dict: segment name -> shot name
  resolutions,   \* resolutions whose slate background has been imported
  temp_reel,     \* the reel 'slate elements': exists, clips
  temp_folder,   \* TEMP_FOLDER on disk: exists, files
  online_reel,   \* contents of the online reel
  offline_reel,  \* contents of the offline reel
  libraries,     \* workspace.libraries, with their folders
  archive_library,   \* dict: folder name -> folder (library index, folder index)
  mezzanines_path,   \* flame.browser.selection[0] of the second script
  mezzanines,    \* what export_mezzanines rendered, per reel
  scheduled,     \* idle callbacks scheduled and not yet run
  at_schedule,   \* the media panel as it was when the callbacks were scheduled
  template,      \* load_slate_setup(resolution): the lines of the template
  slate_info,    \* dict: token -> value
  text_lines,    \* generate_slate's dict: index -> line starting with 'Text'
  slate_setup,   \* generate_slate's list of setup lines
  ttg            \* the file write_slate_ttg wrote: path, lines

deliveryVars ==
  << flame_engine, export_path, reel, versions, idx, attempt,
     sgVersions, sgUploads, sgPlaylists, nextId >>

mastersVars ==
  << sequence, shots, shot_names, resolutions, temp_reel, temp_folder,
     online_reel, offline_reel, libraries, archive_library, mezzanines_path,
     mezzanines, scheduled, at_schedule >>

slateVars == << template, slate_info, text_lines, slate_setup, ttg >>

vars == << pc, log, deliveryVars, mastersVars, slateVars >>

\* the state of a script that is not running
DeliveryIdle ==
  /\ export_path = ""
  /\ reel = << >>
  /\ versions = << >>
  /\ attempt = 0
  /\ sgVersions = {}
  /\ sgUploads = {}
  /\ sgPlaylists = << >>
  /\ nextId = 101

MastersIdle ==
  /\ sequence = << >>
  /\ shots = << >>
  /\ shot_names = << >>
  /\ resolutions = << >>
  /\ temp_reel = [exists |-> FALSE, clips |-> << >>]
  /\ temp_folder = [exists |-> FALSE, files |-> {}]
  /\ online_reel = << >>
  /\ offline_reel = << >>
  /\ libraries = << >>
  /\ archive_library = << >>
  /\ mezzanines_path = ""
  /\ mezzanines = << >>
  /\ scheduled = {}
  /\ at_schedule = << >>

SlateIdle ==
  /\ template = << >>
  /\ slate_info = << >>
  /\ text_lines = << >>
  /\ slate_setup = << >>
  /\ ttg = [path |-> << >>, lines |-> << >>]

Event(ev, id, path) == [ev |-> ev, id |-> id, path |-> path]

(***************************************************************************)
(* create_playlist_for_review.py                                           *)
(***************************************************************************)

\* shotgrid.find_one(entity, filters): an entity matching the filters or None
find_one(candidates) ==
  IF candidates = {} THEN None ELSE CHOOSE e \in candidates : TRUE

FindShot(shot_name) ==
  find_one({ s \in SgShots : s.code = shot_name })

FindTask(shot) ==
  find_one({ t \in SgTasks : t.entity = shot.id /\ t.content = "Comp" })

FindInternalVersion(code) ==
  find_one({ v \in SgInternalVersions : v.code = code })

\* os.path.join(path, reel name, 'h264', '<code>.mov')
H264Path(path, code) == << path, ReelName, "h264", code, ".mov" >>

\* the version_data dictionary of create_versions (the fields the claims read)
VersionData(clip, shot, task, internal_version) ==
  [ code |-> clip.name,
    entity |-> [type |-> "Shot", id |-> shot.id],
    sg_task |-> [type |-> "Task", id |-> task.id],
    project |-> [type |-> "Project", id |-> Project.id],
    description |-> internal_version.description,
    sg_path_to_movie |-> H264Path(export_path, clip.name) ]

\* shotgrid.create('Version', data): the entity as ShotGrid returns it
CreatedVersion(data, id) ==
  [ type |-> "Version", id |-> id, code |-> data.code, entity |-> data.entity,
    sg_task |-> data.sg_task, project |-> data.project ]

InitDelivery ==
  /\ pc = "start"
  /\ log = << >>
  /\ flame_engine \in {None, Engine}
  /\ export_path \in {"", "/data/out"}
  /\ reel \in SeqsUpTo(Clips, MaxClips)
  /\ versions = << >>
  /\ idx = 1
  /\ attempt = 0
  /\ sgVersions = {}
  /\ sgUploads = {}
  /\ sgPlaylists = << >>
  /\ nextId = 101
  /\ MastersIdle
  /\ SlateIdle

\* faulty variant: the playlist is created before the movies are sent
MutAfterStep(step) ==
  CASE step = "export_editorial_files" -> "create_versions"
    [] step = "create_versions" -> "create_playlist"
    [] step = "send_h264s_to_shotgrid" -> "done"
    [] step = "create_playlist" -> "send_h264s_to_shotgrid"

\* create_client_delivery, lines 49-56: the step that follows a step that returned
AfterStep(step) ==
  CASE step = "export_editorial_files" -> "create_versions"
    [] step = "create_versions" -> "send_h264s_to_shotgrid"
    [] step = "send_h264s_to_shotgrid" -> "create_playlist"
    [] step = "create_playlist" -> "done"

\* faulty variant: the ShotGrid-link check is missing
MutDeliveryEntry(path, engine) ==
  IF path = "" THEN "bailed" ELSE "export_editorial_files"

\* create_client_delivery, lines 29-47: the two bail-outs
DeliveryEntry(path, engine) ==
  IF path = "" THEN "bailed"
  ELSE IF engine = None THEN "bailed"
  ELSE "export_editorial_files"

create_client_delivery ==
  /\ pc = "start"
  /\ pc' = DeliveryEntry(export_path, flame_engine)
  /\ UNCHANGED << log, deliveryVars, mastersVars, slateVars >>

\* export_editorial_files: exporter.export(reel, DNX36_PRESET, path)
export_editorial_files ==
  /\ pc = "export_editorial_files"
  /\ \/ /\ log' = Append(log, Event("dnx36", 0, << export_path >>))
        /\ pc' = AfterStep("export_editorial_files")
     \/ /\ pc' = "raised"
        /\ log' = log
  /\ idx' = 1
  /\ UNCHANGED << flame_engine, export_path, reel, versions, attempt,
                  sgVersions, sgUploads, sgPlaylists, nextId, mastersVars, slateVars >>

\* one pass of the for loop of create_versions, or its return
create_versions ==
  /\ pc = "create_versions"
  /\ IF idx > Len(reel)
       THEN /\ pc' = AfterStep("create_versions")
            /\ UNCHANGED << log, versions, idx, sgVersions, nextId >>
       ELSE LET clip == reel[idx]
                shot == FindShot(clip.shot_name)
                task == FindTask(shot)
                internal_version == FindInternalVersion(clip.name)
            IN IF shot = None \/ task = None \/ internal_version = None
                 THEN \* None['id'] / None['description'] raises TypeError
                      /\ pc' = "raised"
                      /\ UNCHANGED << log, versions, idx, sgVersions, nextId >>
                 ELSE \E result \in {"version", "falsy", "raise"} :
                        LET version ==
                              CreatedVersion(VersionData(clip, shot, task,
                                                         internal_version), nextId)
                        IN CASE result = "version" ->
                                  /\ sgVersions' = sgVersions \cup {version}
                                  /\ nextId' = nextId + 1
                                  /\ log' = Append(log, Event("version", version.id, << >>))
                                  /\ versions' = Append(versions, version)
                                  /\ idx' = idx + 1
                                  /\ pc' = pc
                             [] result = "falsy" ->
                                  \* "if version :" is false: the clip is skipped
                                  /\ idx' = idx + 1
                                  /\ pc' = pc
                                  /\ UNCHANGED << log, versions, sgVersions, nextId >>
                             [] result = "raise" ->
                                  /\ pc' = "raised"
                                  /\ UNCHANGED << log, versions, idx, sgVersions, nextId >>
  /\ UNCHANGED << flame_engine, export_path, reel, attempt, sgUploads, sgPlaylists,
                  mastersVars, slateVars >>

\* send_h264s_to_shotgrid, lines 120-127: the H.264 export of the reel
export_h264 ==
  /\ pc = "send_h264s_to_shotgrid"
  /\ \/ /\ log' = Append(log, Event("h264", 0, << export_path >>))
        /\ pc' = "upload"
     \/ /\ pc' = "raised"
        /\ log' = log
  /\ idx' = 1
  /\ attempt' = 0
  /\ UNCHANGED << flame_engine, export_path, reel, versions,
                  sgVersions, sgUploads, sgPlaylists, nextId, mastersVars, slateVars >>

\* faulty variant: a second failure is retried as well
MutAfterFailedUpload(failed) ==
  IF failed < 2 THEN "retry" ELSE "propagate"

\* try / except of lines 131-135: where control goes when shotgrid.upload
\* raises after `failed` earlier failures for the same version
AfterFailedUpload(failed) ==
  IF failed = 0 THEN "retry" ELSE "propagate"

\* one call of shotgrid.upload in the for loop of send_h264s_to_shotgrid
upload ==
  /\ pc = "upload"
  /\ IF idx > Len(versions)
       THEN /\ pc' = AfterStep("send_h264s_to_shotgrid")
            /\ UNCHANGED << log, idx, attempt, sgUploads >>
       ELSE LET version == versions[idx]
                h264_path == H264Path(export_path, version.code)
            IN \E raises \in BOOLEAN :
                 /\ log' = Append(log, Event(IF raises THEN "upload_raised" ELSE "upload",
                                             version.id, h264_path))
                 /\ IF ~raises
                      THEN /\ sgUploads' = sgUploads \cup {version.id}
                           /\ idx' = idx + 1
                           /\ attempt' = 0
                           /\ pc' = pc
                      ELSE /\ sgUploads' = sgUploads
                           /\ idx' = idx
                           /\ IF AfterFailedUpload(attempt) = "retry"
                                THEN attempt' = attempt + 1 /\ pc' = pc
                                ELSE attempt' = attempt /\ pc' = "raised"
  /\ UNCHANGED << flame_engine, export_path, reel, versions,
                  sgVersions, sgPlaylists, nextId, mastersVars, slateVars >>

\* faulty variant: the last version is left out of the playlist
MutPlaylistData(name, vs, project) ==
  [ code |-> name,
    project |-> [type |-> "Project", id |-> project.id],
    versions |-> [ i \in 1..(Len(vs) - 1) |-> [type |-> "Version", id |-> vs[i].id] ] ]

\* playlist_data of create_playlist
PlaylistData(name, vs, project) ==
  [ code |-> name,
    project |-> [type |-> "Project", id |-> project.id],
    versions |-> [ i \in 1..Len(vs) |-> [type |-> "Version", id |-> vs[i].id] ] ]

create_playlist ==
  /\ pc = "create_playlist"
  /\ \/ /\ sgPlaylists' = Append(sgPlaylists,
                                 PlaylistData(ReelName, versions, flame_engine.project))
        /\ log' = Append(log, Event("playlist", nextId, << >>))
        /\ nextId' = nextId + 1
        /\ pc' = AfterStep("create_playlist")
     \/ /\ pc' = "raised"
        /\ UNCHANGED << log, sgPlaylists, nextId >>
  /\ UNCHANGED << flame_engine, export_path, reel, versions, idx, attempt,
                  sgVersions, sgUploads, mastersVars, slateVars >>

NextDelivery ==
  \/ create_client_delivery
  \/ export_editorial_files
  \/ create_versions
  \/ export_h264
  \/ upload
  \/ create_playlist

SpecDelivery == InitDelivery /\ [][NextDelivery]_vars


(***************************************************************************)
(* create_shot_masters.py                                                  *)
(***************************************************************************)
deliveryOnly ==
  << export_path, reel, versions, attempt, sgVersions, sgUploads,
     sgPlaylists, nextId >>

\* segments a selected sequence can hold; names are lists of words
Segments ==
  { [type |-> "Video Segment", name |-> << "sh010_comp_v001" >>, shot_name |-> "sh010",
     width |-> 4096, height |-> 2160, head |-> 8],
    [type |-> "Video Segment", name |-> << "sh020_comp_v002" >>, shot_name |-> "sh020",
     width |-> 1920, height |-> 1080, head |-> 0],
    [type |-> "Video Segment", name |-> << "sh030_comp_v001" >>, shot_name |-> "sh030",
     width |-> 4096, height |-> 2160, head |-> 8],
    [type |-> "Gap", name |-> << "gap" >>, shot_name |-> "",
     width |-> 4096, height |-> 2160, head |-> 0] }

\* how the segments of a sequence are spread over its versions and tracks
Shapes == {"one track", "two tracks", "two versions"}

Tail1(s) == IF s = << >> THEN << >> ELSE Tail(s)

Head1(s) == IF s = << >> THEN << >> ELSE << Head(s) >>

\* the PySequence holding the segments segs in the given shape
BuildSequence(segs, shape) ==
  CASE shape = "one track" -> << << segs >> >>
    [] shape = "two tracks" -> << << Head1(segs), Tail1(segs) >> >>
    [] shape = "two versions" -> << << Head1(segs) >>, << Tail1(segs) >> >>

\* the libraries a workspace can hold before the run: names are lists of
\* words, every folder has a name and the items archived in it
Folder(name) == [name |-> name, items |-> << >>]

Workspaces ==
  { << >>,
    << [name |-> << "Shot", "Sequences" >>,
        folders |-> << Folder("online"), Folder("offline") >>] >>,
    << [name |-> << "Default", "Library" >>, folders |-> << Folder("misc") >>],
       [name |-> << "Old", "Shot", "Sequences" >>,
        folders |-> << Folder("offline"), Folder("online"), Folder("misc") >>] >>,
    << [name |-> << "Shot", "Sequences" >>, folders |-> << Folder("online") >>] >>,
    << [name |-> << "Shot", "Sequences", "2023" >>, folders |-> << >>],
       [name |-> << "Shot", "Sequences" >>,
        folders |-> << Folder("online"), Folder("offline") >>] >> }

InitMasters ==
  /\ pc = "start"
  /\ log = << >>
  /\ flame_engine \in {None, Engine}
  /\ idx = 1
  /\ DeliveryIdle
  /\ \E segs \in SeqsUpTo(Segments, MaxSegments), shape \in Shapes :
       sequence = BuildSequence(segs, shape)
  /\ shots = << >>
  /\ shot_names = << >>
  /\ resolutions = << >>
  /\ temp_reel = [exists |-> FALSE, clips |-> << >>]
  /\ temp_folder \in { [exists |-> FALSE, files |-> {}],
                       [exists |-> TRUE, files |-> { << "temp", "stale", "1920x1080" >> }] }
  /\ online_reel = << >>
  /\ offline_reel = << >>
  /\ libraries \in Workspaces
  /\ archive_library = << >>
  /\ mezzanines_path \in {"", "/data/mezz"}
  /\ mezzanines = << >>
  /\ scheduled = {}
  /\ at_schedule = << >>
  /\ SlateIdle

RECURSIVE Flatten(_)
\* the concatenation of a list of lists
Flatten(ss) == IF ss = << >> THEN << >> ELSE Head(ss) \o Flatten(Tail(ss))

\* faulty variant: only the first version of the sequence is read
MutCollectSegments(seq) ==
  SelectSeq(Flatten(Head(seq)), LAMBDA segment : segment.type = "Video Segment")

\* collect_sequence_segments: the video segments of every version and track
collect_sequence_segments(seq) ==
  SelectSeq(Flatten(Flatten(seq)), LAMBDA segment : segment.type = "Video Segment")

\* f'{width}x{height}'
Resolution(width, height) ==
  CASE << width, height >> = << 4096, 2160 >> -> "4096x2160"
    [] << width, height >> = << 1920, 1080 >> -> "1920x1080"

\* flame.import_clips(SLATE_BG_PATH.replace('RESOLUTION', resolution), reel)[0]
SlateBg(resolution) == [kind |-> "clip", name |-> << "mti_slate_bg_", resolution >>]

\* clip.name.get_value().endswith(resolution)
EndsWith(name, resolution) == name # << >> /\ name[Len(name)] = resolution

\* shot.match(reel, ...): a clip of the segment's media in the reel
MatchClip(shot) == [kind |-> "clip", name |-> shot.name]

\* a sequence holding the shot on its first track, starting at frame 1
ShotSequence(shot, i, width, height) ==
  [ kind |-> "sequence", name |-> shot.name, shot |-> i,
    width |-> width, height |-> height,
    tracks |-> << << [at |-> 1, media |-> shot.name, effects |-> << >>] >> >> ]

\* shot.match(online_reel).open_as_sequence()
OnlineMaster(shot, i) == ShotSequence(shot, i, shot.width, shot.height)

\* create_offline_sequence: a 1920x1080 sequence named after the matched clip
create_offline_sequence(shot, i) == ShotSequence(shot, i, 1920, 1080)

\* sequence.overwrite(clip, time, track): the segment replaces what the
\* track held at that time; a track keeps its segments in time order
Overwrite(track, seg) ==
  SelectSeq(track, LAMBDA s : s.at < seg.at) \o << seg >>
    \o SelectSeq(track, LAMBDA s : s.at > seg.at)

\* insert_slate_frame: background at frame 0 of the first track, thumbnail
\* with its Action effect on a new second track
insert_slate_frame(master, shot, bg, thumbnail_clip) ==
  [ master EXCEPT !.tracks =
      << Overwrite(master.tracks[1], [at |-> 0, media |-> bg.name, effects |-> << >>]),
         << [at |-> 1 - shot.head, media |-> thumbnail_clip.name,
             effects |-> << [type |-> "Action", setup |-> << "timeline_thumbnail.action" >>] >>] >> >> ]

\* write_slate_ttg's path: TEMP_FOLDER/<CODE>-<resolution>.ttg
TtgPath(code, resolution) == << "temp", code, resolution >>

\* write_slate_ttg: creates TEMP_FOLDER when missing, writes the file
write_slate_ttg(folder, path) ==
  [exists |-> TRUE, files |-> folder.files \cup {path}]

\* generate_slate, lines 286-287: a Text effect on the first segment of the
\* first track, loaded with the generated setup
LoadSlate(master, path) ==
  [ master EXCEPT !.tracks[1][1].effects =
      Append(@, [type |-> "Text", setup |-> path]) ]

\* faulty variant: the files are removed, the folder is kept
MutDeleteTempFolder(folder) ==
  [exists |-> folder.exists, files |-> {}]

\* delete_temp_folder: shutil.rmtree(TEMP_FOLDER) when it exists
delete_temp_folder(folder) ==
  IF folder.exists THEN [exists |-> FALSE, files |-> {}] ELSE folder

\* get_slate_info raises when ShotGrid has no Shot or no Version for the shot
SlateInfoRaises(shot) ==
  \/ FindShot(shot.shot_name) = None
  \/ { v \in SgInternalVersions : << v.code >> = shot.name } = {}

\* lines 35-57: the link check, the three reels, the offline background
build_shot_masters_from_sequence ==
  /\ pc = "start"
  /\ IF flame_engine = None
       THEN /\ pc' = "unlinked"
            /\ UNCHANGED << log, temp_reel, shots >>
       ELSE /\ pc' = "shots"
            /\ temp_reel' = [exists |-> TRUE, clips |-> << SlateBg("1920x1080") >>]
            /\ shots' = collect_sequence_segments(sequence)
            /\ log' = Append(log, Event("create_reels", 0, << >>))
  /\ idx' = 1
  /\ UNCHANGED << flame_engine, deliveryOnly, slateVars, sequence, shot_names, resolutions,
                  temp_folder, online_reel, offline_reel, libraries,
                  archive_library, mezzanines_path, mezzanines, scheduled,
                  at_schedule >>

\* lines 59-92: one pass of the loop over the collected segments
shot_loop ==
  /\ pc = "shots"
  /\ idx <= Len(shots)
  /\ LET shot == shots[idx]
         online_master == OnlineMaster(shot, idx)
         offline_master == create_offline_sequence(shot, idx)
         resolution == Resolution(online_master.width, online_master.height)
         offline_bg == temp_reel.clips[1]
         known == \E k \in 1..Len(resolutions) : resolutions[k] = resolution
         staged == Append(temp_reel.clips, MatchClip(shot))
         online_bg ==
           IF ~known THEN SlateBg(resolution)
           ELSE SelectSeq(staged, LAMBDA clip : EndsWith(clip.name, resolution))[1]
         thumbnail == MatchClip(shot)
         clips == (IF known THEN staged ELSE Append(staged, SlateBg(resolution)))
                    \o << thumbnail, thumbnail >>
         online_slated == insert_slate_frame(online_master, shot, online_bg, thumbnail)
         offline_slated == insert_slate_frame(offline_master, shot, offline_bg, thumbnail)
         online_ttg == TtgPath(shot.shot_name, resolution)
         offline_ttg == TtgPath(shot.shot_name, "1920x1080")
         built == << Event("master", idx, << "online" >>),
                     Event("master", idx, << "offline" >>),
                     Event("slate_frame", idx, << "online" >>),
                     Event("slate_frame", idx, << "offline" >>) >>
     IN /\ shot_names' = (shot.name :> shot.shot_name) @@ shot_names
        /\ resolutions' = IF known THEN resolutions ELSE Append(resolutions, resolution)
        /\ temp_reel' = [temp_reel EXCEPT !.clips = clips]
        /\ IF SlateInfoRaises(shot)
             THEN /\ online_reel' = Append(online_reel, online_slated)
                  /\ offline_reel' = Append(offline_reel, offline_slated)
                  /\ log' = log \o built
                  /\ pc' = "raised"
                  /\ UNCHANGED << idx, temp_folder >>
             ELSE /\ online_reel' = Append(online_reel, LoadSlate(online_slated, online_ttg))
                  /\ offline_reel' = Append(offline_reel, LoadSlate(offline_slated, offline_ttg))
                  /\ temp_folder' = write_slate_ttg(write_slate_ttg(temp_folder, online_ttg),
                                                    offline_ttg)
                  /\ log' = log \o built \o
                              << Event("write_ttg", idx, online_ttg),
                                 Event("load_setup", idx, online_ttg),
                                 Event("write_ttg", idx, offline_ttg),
                                 Event("load_setup", idx, offline_ttg) >>
                  /\ idx' = idx + 1
                  /\ pc' = pc
  /\ UNCHANGED << flame_engine, deliveryOnly, slateVars, sequence, shots, libraries,
                  archive_library, mezzanines_path, mezzanines, scheduled,
                  at_schedule >>

\* lines 94-96: flame.delete(temp_reel); delete_temp_folder()
clean_up ==
  /\ pc = "shots"
  /\ idx > Len(shots)
  /\ temp_reel' = [exists |-> FALSE, clips |-> << >>]
  /\ temp_folder' = delete_temp_folder(temp_folder)
  /\ log' = log \o << Event("delete_reel", 0, << >>) >>
              \o (IF temp_folder.exists THEN << Event("rmtree", 0, << "temp" >>) >>
                  ELSE << >>)
  /\ pc' = "get_sequences_folders"
  /\ UNCHANGED << flame_engine, idx, deliveryOnly, slateVars, sequence, shots, shot_names,
                  resolutions, online_reel, offline_reel, libraries,
                  archive_library, mezzanines_path, mezzanines, scheduled,
                  at_schedule >>

\* 'Shot Sequences' in library.name.get_value()
ContainsShotSequences(name) ==
  \E k \in 1..(Len(name) - 1) : name[k] = "Shot" /\ name[k + 1] = "Sequences"

\* {folder.name.get_value(): folder for folder in library.folders}: a later
\* folder of the same name replaces an earlier one
FolderDict(li, folders) ==
  [ n \in { folders[k].name : k \in 1..Len(folders) } |->
      << li, CHOOSE k \in 1..Len(folders) :
               /\ folders[k].name = n
               /\ \A j \in 1..Len(folders) : folders[j].name = n => j <= k >> ]

\* get_sequences_folders: the folders of the first library whose name holds
\* 'Shot Sequences', or a new library with an online and an offline folder
get_sequences_folders(libs) ==
  LET found == { li \in 1..Len(libs) : ContainsShotSequences(libs[li].name) }
  IN IF found # {}
       THEN LET li == CHOOSE i \in found : \A j \in found : i <= j
            IN [libraries |-> libs, archive |-> FolderDict(li, libs[li].folders)]
       ELSE [ libraries |->
                Append(libs, [name |-> << "Shot", "Sequences" >>,
                              folders |-> << Folder("online"), Folder("offline") >>]),
              archive |-> ("online" :> << Len(libs) + 1, 1 >>)
                            @@ ("offline" :> << Len(libs) + 1, 2 >>) ]

\* line 98
fetch_archive_library ==
  /\ pc = "get_sequences_folders"
  /\ LET r == get_sequences_folders(libraries)
     IN /\ libraries' = r.libraries
        /\ archive_library' = r.archive
        /\ log' = IF Len(r.libraries) > Len(libraries)
                    THEN Append(log, Event("create_library", 0, << >>))
                    ELSE log
  /\ pc' = "browse"
  /\ UNCHANGED << flame_engine, idx, deliveryOnly, slateVars, sequence, shots, shot_names,
                  resolutions, temp_reel, temp_folder, online_reel, offline_reel,
                  mezzanines_path, mezzanines, scheduled, at_schedule >>

\* lines 103-107: the destination prompt and its bail-out
select_destination ==
  /\ pc = "browse"
  /\ pc' = IF mezzanines_path = "" THEN "cancelled" ELSE "export_online"
  /\ UNCHANGED << log, flame_engine, idx, deliveryOnly, slateVars, mastersVars >>

\* export_mezzanines: renders every sequence of the reel under path/<reel name>
export_mezzanines(which, contents, path) ==
  [ path |-> << path, which >>,
    clips |-> [ k \in 1..Len(SelectSeq(contents, LAMBDA c : c.kind = "sequence")) |->
                  [kind |-> "clip",
                   name |-> SelectSeq(contents, LAMBDA c : c.kind = "sequence")[k].name,
                   shot_name |-> ""] ] ]

\* line 109
export_online ==
  /\ pc = "export_online"
  /\ \/ /\ mezzanines' = ("online" :> export_mezzanines("online", online_reel, mezzanines_path))
        /\ log' = Append(log, Event("export", 0, << "online" >>))
        /\ pc' = "export_offline"
     \/ /\ pc' = "raised"
        /\ UNCHANGED << log, mezzanines >>
  /\ UNCHANGED << flame_engine, idx, deliveryOnly, slateVars, sequence, shots, shot_names,
                  resolutions, temp_reel, temp_folder, online_reel, offline_reel,
                  libraries, archive_library, mezzanines_path, scheduled,
                  at_schedule >>

\* line 110
export_offline ==
  /\ pc = "export_offline"
  /\ \/ /\ mezzanines' = mezzanines @@
             ("offline" :> export_mezzanines("offline", offline_reel, mezzanines_path))
        /\ log' = Append(log, Event("export", 0, << "offline" >>))
        /\ pc' = "schedule"
     \/ /\ pc' = "raised"
        /\ UNCHANGED << log, mezzanines >>
  /\ UNCHANGED << flame_engine, idx, deliveryOnly, slateVars, sequence, shots, shot_names,
                  resolutions, temp_reel, temp_folder, online_reel, offline_reel,
                  libraries, archive_library, mezzanines_path, scheduled,
                  at_schedule >>

\* the media panel: both reels and the workspace's libraries
MediaPanel == [online_reel |-> online_reel, offline_reel |-> offline_reel,
               libraries |-> libraries]

\* lines 123-126: both callbacks are handed to the host, the action returns
schedule_idle_events ==
  /\ pc = "schedule"
  /\ scheduled' = {"online", "offline"}
  /\ at_schedule' = MediaPanel
  /\ pc' = "returned"
  /\ UNCHANGED << log, flame_engine, idx, deliveryOnly, slateVars, sequence, shots, shot_names,
                  resolutions, temp_reel, temp_folder, online_reel, offline_reel,
                  libraries, archive_library, mezzanines_path, mezzanines >>

\* flame.media_panel.move(items, folder)
MoveToFolder(libs, ref, items) ==
  [ libs EXCEPT ![ref[1]].folders[ref[2]].items = @ \o items ]

Sequences(contents) == SelectSeq(contents, LAMBDA c : c.kind = "sequence")

NotSequences(contents) == SelectSeq(contents, LAMBDA c : c.kind # "sequence")

\* faulty variant: the offline masters are archived in the online folder
MutImportOffline(m, archive, mezz, names) ==
  IF "online" \notin DOMAIN archive THEN m
  ELSE [ online_reel |-> m.online_reel,
         offline_reel |-> NotSequences(m.offline_reel) \o
            [ k \in 1..Len(mezz["offline"].clips) |->
                [ mezz["offline"].clips[k] EXCEPT
                    !.shot_name = names[mezz["offline"].clips[k].name] ] ],
         libraries |-> MoveToFolder(m.libraries, archive["online"],
                                    Sequences(m.offline_reel)) ]

\* import_online_mezzanines: archive_library['online'] raises KeyError when
\* the dict has no such folder, before anything is moved
import_online(m, archive, mezz) ==
  IF "online" \notin DOMAIN archive THEN m
  ELSE [ online_reel |-> NotSequences(m.online_reel) \o mezz["online"].clips,
         offline_reel |-> m.offline_reel,
         libraries |-> MoveToFolder(m.libraries, archive["online"],
                                    Sequences(m.online_reel)) ]

\* import_offline_mezzanines: as above, then every clip of the reel gets
\* the shot name recorded for its name
import_offline(m, archive, mezz, names) ==
  IF "offline" \notin DOMAIN archive THEN m
  ELSE [ online_reel |-> m.online_reel,
         offline_reel |-> NotSequences(m.offline_reel) \o
            [ k \in 1..Len(mezz["offline"].clips) |->
                [ mezz["offline"].clips[k] EXCEPT
                    !.shot_name = names[mezz["offline"].clips[k].name] ] ],
         libraries |-> MoveToFolder(m.libraries, archive["offline"],
                                    Sequences(m.offline_reel)) ]

CallbackLog(which) ==
  IF which \in DOMAIN archive_library
    THEN << Event("move", 0, << which >>), Event("import", 0, << which >>) >>
    ELSE << Event("key_error", 0, << which >>) >>

\* the host runs the scheduled import_online_mezzanines
import_online_mezzanines ==
  /\ "online" \in scheduled
  /\ LET m == import_online(MediaPanel, archive_library, mezzanines)
     IN /\ online_reel' = m.online_reel
        /\ offline_reel' = m.offline_reel
        /\ libraries' = m.libraries
  /\ log' = log \o CallbackLog("online")
  /\ scheduled' = scheduled \ {"online"}
  /\ UNCHANGED << pc, flame_engine, idx, deliveryOnly, slateVars, sequence, shots, shot_names,
                  resolutions, temp_reel, temp_folder, archive_library,
                  mezzanines_path, mezzanines, at_schedule >>

\* the host runs the scheduled import_offline_mezzanines
import_offline_mezzanines ==
  /\ "offline" \in scheduled
  /\ LET m == import_offline(MediaPanel, archive_library, mezzanines, shot_names)
     IN /\ online_reel' = m.online_reel
        /\ offline_reel' = m.offline_reel
        /\ libraries' = m.libraries
  /\ log' = log \o CallbackLog("offline")
  /\ scheduled' = scheduled \ {"offline"}
  /\ UNCHANGED << pc, flame_engine, idx, deliveryOnly, slateVars, sequence, shots, shot_names,
                  resolutions, temp_reel, temp_folder, archive_library,
                  mezzanines_path, mezzanines, at_schedule >>

NextMasters ==
  \/ build_shot_masters_from_sequence
  \/ shot_loop
  \/ clean_up
  \/ fetch_archive_library
  \/ select_destination
  \/ export_online
  \/ export_offline
  \/ schedule_idle_events
  \/ import_online_mezzanines
  \/ import_offline_mezzanines

SpecMasters == InitMasters /\ [][NextMasters]_vars

(***************************************************************************)
(* create_shot_masters.py: slate generation.  A string is the sequence of  *)
(* its code points; a dict is the sequence of its (key, value) pairs in    *)
(* insertion order.                                                        *)
(***************************************************************************)
\* '<CODE>', '<TYPE>', '<RESOLUTION>'
TokenCode == << 60, 67, 79, 68, 69, 62 >>

TokenType == << 60, 84, 89, 80, 69, 62 >>

TokenResolution == << 60, 82, 69, 83, 79, 76, 85, 84, 73, 79, 78, 62 >>

\* 'Text', 'Text ', 'TextLength ', 'Setup', newline
StrText == << 84, 101, 120, 116 >>

StrTextSpace == << 84, 101, 120, 116, 32 >>

StrTextLength == << 84, 101, 120, 116, 76, 101, 110, 103, 116, 104, 32 >>

StrHeader == << 83, 101, 116, 117, 112, 10 >>

\* values get_slate_info can deliver: '', 'A', 'v2'; the resolution '1920x1080'
SlateValues == { << >>, << 65 >>, << 118, 50 >> }

StrResolution == << 49, 57, 50, 48, 120, 49, 48, 56, 48 >>

RECURSIVE Digits(_)
\* str(n)
Digits(n) == IF n < 10 THEN << 48 + n >> ELSE Digits(n \div 10) \o << 48 + (n % 10) >>

RECURSIVE JoinCodes(_)
\* ' '.join(str(a) for a in ascii_list)
JoinCodes(codes) ==
  IF codes = << >> THEN << >>
  ELSE IF Len(codes) = 1 THEN Digits(codes[1])
  ELSE Digits(codes[1]) \o << 32 >> \o JoinCodes(Tail(codes))

\* ascii_convert: curly quotes become '"', code 194 is dropped, the rest is
\* written as space-separated decimal code points
ascii_convert(text_to_convert) ==
  JoinCodes(SelectSeq([ k \in 1..Len(text_to_convert) |->
                          IF text_to_convert[k] \in {8220, 8221} THEN 34
                          ELSE text_to_convert[k] ],
                      LAMBDA c : c # 194))

\* line.startswith(prefix)
StartsWith(line, prefix) ==
  /\ Len(prefix) <= Len(line)
  /\ \A k \in 1..Len(prefix) : line[k] = prefix[k]

OccursAt(line, pattern, i) ==
  /\ i + Len(pattern) - 1 <= Len(line)
  /\ \A k \in 1..Len(pattern) : line[i + k - 1] = pattern[k]

\* pattern in line
Contains(pattern, line) == \E i \in 1..Len(line) : OccursAt(line, pattern, i)

RECURSIVE StrReplace(_, _, _)
\* line.replace(pattern, replacement): every occurrence, left to right
StrReplace(line, pattern, replacement) ==
  IF Len(line) < Len(pattern) THEN line
  ELSE IF OccursAt(line, pattern, 1)
    THEN replacement \o StrReplace(SubSeq(line, Len(pattern) + 1, Len(line)),
                                   pattern, replacement)
    ELSE << Head(line) >> \o StrReplace(Tail(line), pattern, replacement)

\* d[key] = value
DictPut(d, key, value) ==
  IF \E k \in 1..Len(d) : d[k][1] = key
    THEN [ k \in 1..Len(d) |-> IF d[k][1] = key THEN << key, value >> ELSE d[k] ]
    ELSE Append(d, << key, value >>)

DictGet(d, key) == d[CHOOSE k \in 1..Len(d) : d[k][1] = key][2]

\* {index: line for index, line in enumerate(slate_setup) if line.startswith('Text')}
TextLines(setup) ==
  SelectSeq([ k \in 1..Len(setup) |-> << k - 1, setup[k] >> ],
            LAMBDA item : StartsWith(item[2], StrText))

RECURSIVE ReplaceTokenLoop(_, _, _, _, _)
\* the for loop of replace_token over text_lines.items(), from item k on
ReplaceTokenLoop(lines, k, pattern, pattern_replacement, char_count) ==
  IF k > Len(lines) THEN << >>
  ELSE LET rest == ReplaceTokenLoop(lines, k + 1, pattern, pattern_replacement, char_count)
           index == lines[k][1]
           line == lines[k][2]
       IN IF Contains(pattern, line)
            THEN << << index, StrReplace(line, pattern, pattern_replacement) >>,
                    << index - 1, StrTextLength \o Digits(char_count) \o << 10 >> >> >>
                   \o rest
            ELSE rest

RECURSIVE DictFromItems(_, _)
\* the dict built by assigning the items in order
DictFromItems(d, items) ==
  IF items = << >> THEN d
  ELSE DictFromItems(DictPut(d, Head(items)[1], Head(items)[2]), Tail(items))

\* replace_token: the lines holding the token, with it replaced, and the
\* TextLength line before each of them
replace_token(token, value, lines) ==
  LET v == IF value = << >> THEN << 32 >> ELSE value
  IN DictFromItems(<< >>,
       ReplaceTokenLoop(lines, 1, ascii_convert(token), ascii_convert(v), Len(v)))

\* setup[index]: Python's indexing, negative indices count from the end
PyIndex(setup, index) == IF index < 0 THEN Len(setup) + index + 1 ELSE index + 1

RECURSIVE update_setup(_, _)
\* update_setup: for index, value in new_lines.items(): setup[index] = value
update_setup(setup, new_lines) ==
  IF new_lines = << >> THEN setup
  ELSE update_setup([ setup EXCEPT ![PyIndex(setup, Head(new_lines)[1])] = Head(new_lines)[2] ],
                    Tail(new_lines))

\* the parts a Text line of a template is made of: a token or the letter 'A'
TemplateParts == { TokenCode, TokenType, TokenResolution, << 65 >> }

RECURSIVE Concat(_)
Concat(parts) == IF parts = << >> THEN << >> ELSE Head(parts) \o Concat(Tail(parts))

\* a text layer of a .ttg setup: its TextLength line and its Text line
TextLayer(parts) ==
  << StrTextLength \o Digits(Len(Concat(parts))) \o << 10 >>,
     StrTextSpace \o ascii_convert(Concat(parts)) \o << 10 >> >>

TemplateLayers == { TextLayer(parts) : parts \in SeqsUpTo(TemplateParts, MaxParts) \ { << >> } }

\* load_slate_setup: the lines of a template file
Templates == { << StrHeader >> \o Concat(layers) : layers \in SeqsUpTo(TemplateLayers, MaxLayers) }

InitSlate ==
  /\ pc = "start"
  /\ log = << >>
  /\ flame_engine = Engine
  /\ idx = 1
  /\ DeliveryIdle
  /\ MastersIdle
  /\ template \in Templates
  /\ \E code \in SlateValues \ { << >> }, type \in SlateValues :
       slate_info = << << TokenCode, code >>, << TokenType, type >>,
                       << TokenResolution, StrResolution >> >>
  /\ slate_setup = << >>
  /\ text_lines = << >>
  /\ ttg = [path |-> << >>, lines |-> << >>]

\* generate_slate, lines 275-277
load_slate_setup ==
  /\ pc = "start"
  /\ slate_setup' = template
  /\ text_lines' = TextLines(template)
  /\ idx' = 1
  /\ pc' = "tokens"
  /\ UNCHANGED << log, flame_engine, deliveryOnly, mastersVars, template, slate_info, ttg >>

\* generate_slate, lines 279-282: one pass of the loop over slate_info.items()
replace_next_token ==
  /\ pc = "tokens"
  /\ idx <= Len(slate_info)
  /\ slate_setup' = update_setup(slate_setup,
                                 replace_token(slate_info[idx][1], slate_info[idx][2],
                                               text_lines))
  /\ idx' = idx + 1
  /\ UNCHANGED << pc, log, flame_engine, deliveryOnly, mastersVars, template, slate_info,
                  text_lines, ttg >>

\* generate_slate, line 284: write_slate_ttg(slate_setup, '<CODE>-<resolution>')
write_ttg ==
  /\ pc = "tokens"
  /\ idx > Len(slate_info)
  /\ ttg' = [ path |-> TtgPath(DictGet(slate_info, TokenCode),
                               DictGet(slate_info, TokenResolution)),
              lines |-> slate_setup ]
  /\ pc' = "written"
  /\ UNCHANGED << log, flame_engine, idx, deliveryOnly, mastersVars, template, slate_info,
                  text_lines, slate_setup >>

NextSlate ==
  \/ load_slate_setup
  \/ replace_next_token
  \/ write_ttg

SpecSlate == InitSlate /\ [][NextSlate]_vars

(***************************************************************************)
(* Claims about create_playlist_for_review.py                              *)
(***************************************************************************)
IsAttempt(e) == e.ev \in {"upload", "upload_raised"}

\* the positions of the log holding an upload call for version id
AttemptsOf(id) == { i \in 1..Len(log) : IsAttempt(log[i]) /\ log[i].id = id }

EarlierAttempts(i) == { j \in AttemptsOf(log[i].id) : j < i }

\* C1: every version is uploaded at most twice. A first attempt that raises
\* is followed by exactly one more attempt for the same version and path; a
\* second attempt that raises ends the run with the error (no third attempt,
\* no upload for the remaining versions); an attempt that succeeds is the
\* last one for its version.
C1_SingleRetry ==
  /\ \A v \in sgVersions : Cardinality(AttemptsOf(v.id)) <= 2
  /\ \A i \in 1..Len(log) :
       /\ (log[i].ev = "upload_raised" /\ EarlierAttempts(i) = {}) =>
            \/ i = Len(log) /\ pc = "upload"
            \/ /\ i < Len(log)
               /\ IsAttempt(log[i + 1])
               /\ log[i + 1].id = log[i].id
               /\ log[i + 1].path = log[i].path
       /\ (log[i].ev = "upload_raised" /\ EarlierAttempts(i) # {}) =>
            /\ i = Len(log)
            /\ pc = "raised"
            /\ Cardinality(EarlierAttempts(i)) = 1
       /\ log[i].ev = "upload" =>
            /\ \A j \in AttemptsOf(log[i].id) : j <= i
            /\ (EarlierAttempts(i) = {} => Cardinality(AttemptsOf(log[i].id)) = 1)

\* a first version uploaded at the second attempt, a second version whose two
\* attempts both raised
C1_Witness ==
  /\ pc = "raised"
  /\ Len(versions) = 2
  /\ Len(log) >= 4
  /\ log[Len(log)].ev = "upload_raised"
  /\ log[Len(log) - 1].ev = "upload_raised"
  /\ log[Len(log)].id = versions[2].id
  /\ log[Len(log) - 1].id = versions[2].id
  /\ log[Len(log) - 2].ev = "upload"
  /\ log[Len(log) - 3].ev = "upload_raised"
  /\ log[Len(log) - 2].id = versions[1].id

Rank(e) ==
  CASE e.ev = "dnx36" -> 1
    [] e.ev = "version" -> 2
    [] e.ev = "h264" -> 3
    [] IsAttempt(e) -> 4
    [] e.ev = "playlist" -> 5

Happened(ev) == \E i \in 1..Len(log) : log[i].ev = ev

CountOf(ev) == Cardinality({ i \in 1..Len(log) : log[i].ev = ev })

\* C2: the steps of create_client_delivery happen in the order DNx36 export,
\* creation of the versions, H.264 export, uploads, playlist creation; the
\* playlist is created only after every version returned by create_versions
\* has had a successful upload; a run in which a step raised creates no playlist.
C2_StepOrder ==
  /\ \A i, j \in 1..Len(log) : i < j => Rank(log[i]) <= Rank(log[j])
  /\ CountOf("dnx36") <= 1 /\ CountOf("h264") <= 1 /\ CountOf("playlist") <= 1
  /\ (log # << >>) => log[1].ev = "dnx36"
  /\ (\E i \in 1..Len(log) : IsAttempt(log[i])) => Happened("h264")
  /\ Happened("playlist") =>
       /\ Happened("h264")
       /\ \A k \in 1..Len(versions) :
            /\ versions[k].id \in sgUploads
            /\ \E i \in 1..Len(log) :
                 log[i].ev = "upload" /\ log[i].id = versions[k].id
  /\ Happened("h264") => CountOf("version") = Len(versions)
  /\ (sgPlaylists # << >>) <=> Happened("playlist")
  /\ pc = "raised" => sgPlaylists = << >>
  /\ pc = "done" => Happened("playlist")

C2_Witness ==
  /\ pc = "done"
  /\ Len(versions) = 2
  /\ Len(sgPlaylists) = 1
  /\ \E i \in 1..Len(log) : log[i].ev = "upload_raised"

\* C3 (as claimed): when create_versions has returned, the list holds exactly
\* one version per clip of the reel, in clip order, each with the clip's name
\* as code and linked to the clip's Shot and to that shot's Comp task.
C3_OneVersionPerClip ==
  pc \in {"send_h264s_to_shotgrid", "upload", "create_playlist", "done"} =>
    /\ Len(versions) = Len(reel)
    /\ \A i \in 1..Len(versions) :
         i <= Len(reel) =>
           /\ versions[i].code = reel[i].name
           /\ versions[i].entity.id = FindShot(reel[i].shot_name).id
           /\ versions[i].sg_task.id = FindTask(FindShot(reel[i].shot_name)).id

\* C4: a run that completes has created exactly one playlist, named after the
\* reel and linked to the engine's project, whose versions are the versions
\* returned by create_versions: same ids, same order, no duplicate, no omission.
C4_PlaylistHoldsVersions ==
  pc = "done" =>
    /\ Len(sgPlaylists) = 1
    /\ sgPlaylists[1].code = ReelName
    /\ sgPlaylists[1].project = [type |-> "Project", id |-> Engine.project.id]
    /\ Len(sgPlaylists[1].versions) = Len(versions)
    /\ \A i \in 1..Len(versions) :
         sgPlaylists[1].versions[i] = [type |-> "Version", id |-> versions[i].id]
    /\ \A i, j \in 1..Len(sgPlaylists[1].versions) :
         i # j => sgPlaylists[1].versions[i].id # sgPlaylists[1].versions[j].id
    /\ { sgPlaylists[1].versions[i].id : i \in 1..Len(sgPlaylists[1].versions) }
         = { v.id : v \in sgVersions }

C4_Witness ==
  /\ pc = "done"
  /\ Len(versions) = 2
  /\ Len(sgPlaylists) = 1
  /\ Len(sgPlaylists[1].versions) = 2

\* C5: when no destination path was chosen or the project is not linked to
\* ShotGrid, the run bails out with no export, no Version, no Playlist and no
\* upload attempt.
C5_BailOutNoSideEffect ==
  (export_path = "" \/ flame_engine = None) =>
    /\ pc \in {"start", "bailed"}
    /\ log = << >>
    /\ sgVersions = {}
    /\ sgUploads = {}
    /\ sgPlaylists = << >>

C5_Witness ==
  /\ pc = "bailed"
  /\ export_path # ""
  /\ flame_engine = None
  /\ Len(reel) = 2

(***************************************************************************)
(* Claims about create_shot_masters.py                                     *)
(***************************************************************************)
\* where the selected sequence holds a video segment: version, track, place
VideoPlaces ==
  { p \in (1..Len(sequence)) \X (1..2) \X (1..(MaxSegments + 1)) :
      /\ p[2] <= Len(sequence[p[1]])
      /\ p[3] <= Len(sequence[p[1]][p[2]])
      /\ sequence[p[1]][p[2]][p[3]].type = "Video Segment" }

PlaceBefore(p, q) ==
  \/ p[1] < q[1]
  \/ p[1] = q[1] /\ p[2] < q[2]
  \/ p[1] = q[1] /\ p[2] = q[2] /\ p[3] < q[3]

\* the rank of a video segment among the video segments, in sequence order
OrderOf(p) == Cardinality({ q \in VideoPlaces : PlaceBefore(q, p) }) + 1

\* master is a finished master of the segment at place p
SlatedMasterOf(master, p, resolution) ==
  /\ master.kind = "sequence"
  /\ master.shot = OrderOf(p)
  /\ master.name = sequence[p[1]][p[2]][p[3]].name
  /\ master.tracks[1][1].at = 0
  /\ master.tracks[1][1].media = << "mti_slate_bg_", resolution >>
  /\ Len(master.tracks[1][1].effects) = 1
  /\ master.tracks[1][1].effects[1].type = "Text"
  /\ Len(master.tracks[1]) = 2

BuildEvents == {"master", "slate_frame", "write_ttg", "load_setup"}

\* C6: when the first mezzanine export starts, each video segment of the
\* selected sequence (every version, every track, other segments skipped) has
\* exactly one master in the online reel and one in the offline reel, each
\* with the slate background at frame 0 of its first track and one Text
\* effect on that segment; nothing is built once an export has happened.
C6_MastersBuiltBeforeExport ==
  /\ pc \in {"export_online", "export_offline", "schedule"} =>
       /\ Len(online_reel) = Cardinality(VideoPlaces)
       /\ Len(offline_reel) = Cardinality(VideoPlaces)
       /\ \A p \in VideoPlaces :
            LET seg == sequence[p[1]][p[2]][p[3]]
            IN /\ Cardinality({ k \in 1..Len(online_reel) :
                     SlatedMasterOf(online_reel[k], p,
                                    Resolution(seg.width, seg.height)) }) = 1
               /\ Cardinality({ k \in 1..Len(offline_reel) :
                     SlatedMasterOf(offline_reel[k], p, "1920x1080") }) = 1
  /\ \A i, j \in 1..Len(log) :
       (i < j /\ log[i].ev = "export") => log[j].ev \notin BuildEvents
  /\ Happened("export") => CountOf("master") = 2 * Cardinality(VideoPlaces)

C6_Witness ==
  /\ pc = "export_offline"
  /\ Len(sequence) = 2
  /\ Cardinality(VideoPlaces) = 2
  /\ Len(online_reel) = 2
  /\ Happened("export")

\* C7: once build_shot_masters_from_sequence has passed the link check and
\* returned (mezzanines exported, or destination prompt cancelled), neither
\* the reel 'slate elements' nor the temp folder exists; every generated
\* setup is loaded into its Text effect before the folder is deleted.
C7_TempResourcesCleaned ==
  /\ pc \in {"cancelled", "returned"} =>
       /\ ~temp_reel.exists
       /\ ~temp_folder.exists
       /\ Happened("delete_reel")
  /\ \A i \in 1..Len(log) :
       log[i].ev = "write_ttg" =>
         \E j \in 1..Len(log) :
           /\ j > i
           /\ log[j].ev = "load_setup"
           /\ log[j].path = log[i].path
           /\ log[j].id = log[i].id
           /\ \A k \in 1..Len(log) : log[k].ev = "rmtree" => j < k
  /\ \A i, k \in 1..Len(log) :
       (log[k].ev = "rmtree" /\ log[i].ev = "write_ttg") => i < k

C7_Witness ==
  /\ pc = "cancelled"
  /\ CountOf("write_ttg") = 4
  /\ Happened("rmtree")
  /\ ~temp_folder.exists

\* C8 (as claimed): the dict get_sequences_folders returns maps both
\* 'online' and 'offline' to a folder of a 'Shot Sequences' library, for
\* every workspace; and no second library is created when one exists.
C8_BothFoldersFetched ==
  pc \in {"browse", "cancelled", "export_online", "export_offline", "schedule",
          "returned"} =>
    /\ \A n \in {"online", "offline"} :
         /\ n \in DOMAIN archive_library
         /\ ContainsShotSequences(libraries[archive_library[n][1]].name)
         /\ libraries[archive_library[n][1]].folders[archive_library[n][2]].name = n
    /\ Happened("create_library") =>
         Cardinality({ li \in 1..Len(libraries) :
                         ContainsShotSequences(libraries[li].name) }) = 1

ArchiveItems(libs, which) ==
  libs[archive_library[which][1]].folders[archive_library[which][2]].items

ReelAtSchedule(which) ==
  IF which = "online" THEN at_schedule.online_reel ELSE at_schedule.offline_reel

ReelNow(which) == IF which = "online" THEN online_reel ELSE offline_reel

\* C10: a reel's masters are moved into the matching archive folder before
\* its mezzanines are imported; neither happens before both exports have
\* finished, nor when the destination prompt was cancelled; once both idle
\* callbacks have run, reels and archive folders are the same whichever
\* callback ran first.
C10_ReimportOrder ==
  /\ \A i \in 1..Len(log) :
       /\ log[i].ev = "import" =>
            /\ i > 1
            /\ log[i - 1].ev = "move"
            /\ log[i - 1].path = log[i].path
       /\ log[i].ev \in {"move", "import"} =>
            /\ \E j \in 1..(i - 1) : log[j] = Event("export", 0, << "online" >>)
            /\ \E j \in 1..(i - 1) : log[j] = Event("export", 0, << "offline" >>)
            /\ mezzanines_path # ""
  /\ \A which \in {"online", "offline"} :
       (\E i \in 1..Len(log) : log[i] = Event("import", 0, << which >>)) =>
         /\ libraries[archive_library[which][1]].folders[archive_library[which][2]].name
              = which
         /\ ArchiveItems(libraries, which)
              = ArchiveItems(at_schedule.libraries, which) \o ReelAtSchedule(which)
         /\ Len(ReelNow(which)) = Len(ReelAtSchedule(which))
         /\ \A k \in 1..Len(ReelNow(which)) :
              /\ ReelNow(which)[k].kind = "clip"
              /\ ReelNow(which)[k].name = ReelAtSchedule(which)[k].name
  /\ (pc = "cancelled") => ~Happened("export")
  /\ (pc = "returned" /\ scheduled = {}) =>
       /\ MediaPanel = import_offline(import_online(at_schedule, archive_library, mezzanines),
                                      archive_library, mezzanines, shot_names)
       /\ MediaPanel = import_online(import_offline(at_schedule, archive_library, mezzanines,
                                                    shot_names),
                                     archive_library, mezzanines)

\* both callbacks ran, the offline one first, and both moved masters
C10_Witness ==
  /\ pc = "returned"
  /\ scheduled = {}
  /\ Len(log) >= 4
  /\ log[Len(log)] = Event("import", 0, << "online" >>)
  /\ log[Len(log) - 1] = Event("move", 0, << "online" >>)
  /\ log[Len(log) - 2] = Event("import", 0, << "offline" >>)
  /\ Len(at_schedule.online_reel) = 2
  /\ Len(online_reel) = 2

(***************************************************************************)
(* Claims about slate generation                                           *)
(***************************************************************************)
RECURSIVE FilledIn(_, _)
\* the line with every token of the items replaced by its value's code
\* points (an empty value is written as one space, lines 353-354)
FilledIn(line, items) ==
  IF items = << >> THEN line
  ELSE FilledIn(StrReplace(line, ascii_convert(Head(items)[1]),
                           ascii_convert(IF Head(items)[2] = << >> THEN << 32 >>
                                         ELSE Head(items)[2])),
                Tail(items))

\* C9 (as claimed): the setup written by write_slate_ttg holds no token of
\* slate_info in its Text lines, and every Text line is the template's line
\* with each token replaced by the code points of its value, also when a
\* line holds several tokens or a token appears on several lines.
C9_TemplateFilledIn ==
  pc = "written" =>
    /\ Len(ttg.lines) = Len(template)
    /\ \A i \in 1..Len(template) :
         StartsWith(template[i], StrTextSpace) =>
           /\ \A k \in 1..Len(slate_info) :
                ~Contains(ascii_convert(slate_info[k][1]), ttg.lines[i])
           /\ ttg.lines[i] = FilledIn(template[i], slate_info)

\* the tokens of slate_info a line holds
TokensOn(line) ==
  { k \in 1..Len(slate_info) : Contains(ascii_convert(slate_info[k][1]), line) }

\* generate_slate fills in every template whose lines hold at most one token
\* of slate_info each
SingleTokenLinesFilledIn ==
  (pc = "written" /\ \A i \in 1..Len(template) : Cardinality(TokensOn(template[i])) <= 1) =>
    \A i \in 1..Len(template) :
      StartsWith(template[i], StrTextSpace) =>
        /\ TokensOn(ttg.lines[i]) = {}
        /\ ttg.lines[i] = FilledIn(template[i], slate_info)

=============================================================================
